---------------------------- MODULE Spec2Model ----------------------------
(***************************************************************************)
(* A model of experiments/baselines.py of T-CorEx: the Baseline facade     *)
(* (select / evaluate / get_covariance / timeit), the grid search inside   *)
(* select, the estimator adapters (_train of each Baseline subclass) and   *)
(* the file based protocol of the two external solvers (QUIC, BigQUIC).    *)
(*                                                                         *)
(* Python values are modelled as follows.                                  *)
(*   float score      an integer; NaN is the value NaN, with the IEEE      *)
(*                    comparison (every ordered comparison with NaN is     *)
(*                    false); a float slot holding None is NoScore         *)
(*   dict             a function from its keys (strings) to values         *)
(*   ordered items    a sequence (the iteration order of dict.items())     *)
(*   None             the record None                                      *)
(*   covariance list  a record [pt, mats]: pt identifies the _train call   *)
(*                    that built the list (the grid index inside select, 0 *)
(*                    for a direct call), mats has one tag per matrix      *)
(***************************************************************************)
EXTENDS Integers, Sequences, FiniteSets, TLC

VARIABLES
    variant,         \* the class of the facade instance
    self_trained,    \* self._trained
    self_val_score,  \* self._val_score
    self_params,     \* self._params
    self_covs,       \* self._covs
    self_method,     \* self._method
    self_min_var,    \* self.min_var (Diagonal)
    cwd,             \* the process working directory (os.getcwd()), a path
    files,           \* the files that exist in the solver directories
    pc,              \* "idle", or "select" while the loop of select runs
    caller_params,   \* the mapping object the caller passed to the call
    train_data,      \* the train_data argument of the running select
    const_params,    \* select's local const_params
    grid,            \* select's local grid
    index,           \* number of grid points select has finished
    best_score,      \* select's local best_score
    best_params,     \* select's local best_params
    best_covs,       \* select's local best_covs
    best_method,     \* select's local best_method
    trainLog,        \* history: the params of each _train call of the select
    scoreLog,        \* history: the score of each grid point of the select
    selects,         \* history: has a select call returned on this instance
    call,            \* history: the arguments of the last call that began
    parsed,          \* history: the last solver output parsed, and the result
    ret              \* the outcome of the last call that ended

vars == << variant, self_trained, self_val_score, self_params, self_covs,
           self_method, self_min_var, cwd, files, pc, caller_params, train_data,
           const_params, grid, index, best_score, best_params, best_covs,
           best_method, trainLog, scoreLog, selects, call, parsed, ret >>

facade == << self_trained, self_val_score, self_params, self_covs,
             self_method >>

locals == << caller_params, train_data, const_params, grid, index,
             best_score, best_params, best_covs, best_method >>

---------------------------------------------------------------------------
(* Bounds of the model.                                                    *)

MaxLen == 2        \* longest list of candidate values of one hyperparameter
MaxInner == 2      \* most inner keys of a dict-valued ParamSpec entry
MaxEntries == 2    \* most entries of a ParamSpec
MaxGrid == 5       \* longest single axis of the search specification
LowScore == 3      \* the scores of the search specification are
MaxScore == 5      \*   LowScore..MaxScore, and NaN
MaxSeg == 2        \* most segments of a training data set
MaxRunId == 2      \* run ids (exp_id) are drawn from 1..MaxRunId
FacadeLen == 2     \* longest candidate list there
FacadeSeg == 1     \* most segments there
FacadeScore == 2   \* scores there are 1..FacadeScore, and NaN
NumVars == 2       \* variables (columns) of a segment
MaxVar == 2        \* the variance of a variable is in 0..MaxVar
MaxMinVar == 2     \* the min_var values are 1..MaxMinVar
MaxP == 2          \* nv and the p of an output header are in 1..MaxP
MaxNnz == 2        \* most entry lines of an output file, and largest nnz
MaxVal == 2        \* the values of the entry lines are 1..MaxVal

(* Python constants and special values.                                    *)

NaN == -1
NoScore == -2
InitBestScore == 1000000000   \* stands for 1e18: above every score
None == [none |-> TRUE]
DefaultMinVar == 1            \* stands for 1e-6: the smallest positive value
Dummy == "__dummy__"

IsNaN(x) == x = NaN

\* x < y on floats: false as soon as one side is NaN
FloatLess(x, y) == ~IsNaN(x) /\ ~IsNaN(y) /\ x < y

Keys == {"a", "b"}
ConstVal == 0

RECURSIVE SeqSum(_)
SeqSum(s) == IF s = << >> THEN 0 ELSE Head(s) + SeqSum(Tail(s))

RECURSIVE SeqProd(_)
SeqProd(s) == IF s = << >> THEN 1 ELSE Head(s) * SeqProd(Tail(s))

RECURSIVE Flatten(_)
Flatten(ss) == IF ss = << >> THEN << >> ELSE Head(ss) \o Flatten(Tail(ss))

---------------------------------------------------------------------------
(* ParamSpec: the ordered items of the params mapping given to select.     *)
(* An entry is a constant (v), a list of candidate values (xs) or a dict   *)
(* of inner keys with a list each (sub).                                   *)

ConstEntry(k, v) == [k |-> k, kind |-> "const", v |-> v, xs |-> << >>, sub |-> << >>]
ListEntry(k, xs) == [k |-> k, kind |-> "list", v |-> 0, xs |-> xs, sub |-> << >>]
DictEntry(k, sub) == [k |-> k, kind |-> "dict", v |-> 0, xs |-> << >>, sub |-> sub]

\* the candidate lists: <<1, ..., n>>
ValueList(n) == [i \in 1..n |-> i]

DistinctKeys(s) == \A i, j \in DOMAIN s : i # j => s[i].k # s[j].k

Lists(maxLen) == {ValueList(n) : n \in 0..maxLen}

InnerSeqs(maxInner, maxLen) ==
    { s \in UNION {[1..n -> [k : Keys, xs : Lists(maxLen)]] : n \in 0..maxInner} :
        DistinctKeys(s) }

Entries(maxInner, maxLen) ==
    {ConstEntry(k, ConstVal) : k \in Keys}
    \cup {ListEntry(k, xs) : k \in Keys, xs \in Lists(maxLen)}
    \cup {DictEntry(k, sub) : k \in Keys, sub \in InnerSeqs(maxInner, maxLen)}

ParamSpecs(maxEntries, maxInner, maxLen) ==
    { s \in UNION {[1..n -> Entries(maxInner, maxLen)] : n \in 0..maxEntries} :
        DistinctKeys(s) }

---------------------------------------------------------------------------
(* Baseline.select, lines 39-58: const_params, search_params and grid.     *)

\* lines 44 and 49: [(k, x) for x in v]
AxisOf(k, xs) == [i \in DOMAIN xs |-> << k, xs[i] >>]

\* lines 47-49 with the arr of the first inner key only
DictAxisFirstKey(sub) ==
    IF sub = << >> THEN << >> ELSE AxisOf(sub[1].k, sub[1].xs)

\* lines 47-49: one arr for the whole dict, the inner lists appended
DictAxis(sub) == Flatten([i \in DOMAIN sub |-> AxisOf(sub[i].k, sub[i].xs)])

\* lines 39-52
RECURSIVE ConstParamsOf(_)
ConstParamsOf(P) ==
    IF P = << >> THEN << >>
    ELSE LET e == Head(P)
             rest == ConstParamsOf(Tail(P))
         IN  IF e.kind = "const" THEN << << e.k, e.v >> >> \o rest ELSE rest

RECURSIVE AxesOf(_)
AxesOf(P) ==
    IF P = << >> THEN << >>
    ELSE LET e == Head(P)
             rest == AxesOf(Tail(P))
         IN  CASE e.kind = "list" -> << AxisOf(e.k, e.xs) >> \o rest
               [] e.kind = "dict" -> << DictAxis(e.sub) >> \o rest
               [] OTHER -> rest

\* line 56 with an axis that holds no candidate
EmptyAxis == << >>

\* line 56
DummyAxis == << << Dummy, None >> >>

\* lines 55-56 without the dummy axis
SearchParamsNoDummy(P) == AxesOf(P)

\* lines 55-56
SearchParams(P) == IF Len(AxesOf(P)) = 0 THEN << DummyAxis >> ELSE AxesOf(P)

\* itertools.product(*axes): the last axis varies fastest
RECURSIVE Product(_)
Product(axes) ==
    IF axes = << >> THEN << << >> >>
    ELSE LET rest == Product(Tail(axes))
             h == Head(axes)
         IN  Flatten([i \in DOMAIN h |-> [j \in DOMAIN rest |-> << h[i] >> \o rest[j]]])

\* line 58
GridOf(P) == Product(SearchParams(P))

\* dict(pairs): a later pair with the same key replaces an earlier one
DictOf(pairs) ==
    [k \in {pairs[i][1] : i \in DOMAIN pairs} |->
        LET last == CHOOSE i \in DOMAIN pairs :
                        /\ pairs[i][1] = k
                        /\ \A j \in DOMAIN pairs : pairs[j][1] = k => j <= i
        IN  pairs[last][2]]

\* lines 69-71 merged the other way round: the grid point wins
CurParamsGridWins(point, consts) ==
    LET d == DictOf(point)
    IN  [k \in DOMAIN d \cup DOMAIN consts |->
            IF k \in DOMAIN d THEN d[k] ELSE consts[k]]

\* lines 69-71: the grid point, then every constant written over it
CurParams(point, consts) ==
    LET d == DictOf(point)
    IN  [k \in DOMAIN d \cup DOMAIN consts |->
            IF k \in DOMAIN consts THEN consts[k] ELSE d[k]]

\* x >= y on floats
FloatGeq(x, y) == ~IsNaN(x) /\ ~IsNaN(y) /\ x >= y

\* line 78 written as "not worse than the best": a NaN score replaces
ReplacesUnlessWorse(bestParams, bestScore, curScore) ==
    \/ bestParams = None
    \/ ~FloatGeq(curScore, bestScore)

\* line 78
Replaces(bestParams, bestScore, curScore) ==
    \/ bestParams = None
    \/ (~IsNaN(curScore) /\ FloatLess(curScore, bestScore))

---------------------------------------------------------------------------
(* The process working directory and the files of the solver directories.  *)
(* A path is the sequence of its components below the repository root.     *)

QuicDir == << "experiments", "methods", "QUIC" >>
BigQuicDir == << "experiments", "methods", "BigQUIC", "bigquic" >>
Root == << >>

Prefixes(d) == {SubSeq(d, 1, n) : n \in 0..Len(d)}

\* the directories that exist
Dirs == Prefixes(QuicDir) \cup Prefixes(BigQuicDir)

Up(n) == [i \in 1..n |-> ".."]

\* the directory a relative path names, seen from directory cur
RECURSIVE Resolve(_, _)
Resolve(cur, rel) ==
    IF rel = << >> THEN cur
    ELSE IF Head(rel) = ".."
         THEN Resolve(IF cur = << >> THEN cur ELSE SubSeq(cur, 1, Len(cur) - 1), Tail(rel))
         ELSE Resolve(Append(cur, Head(rel)), Tail(rel))

\* os.chdir(rel) that succeeds wherever it is called from
ChdirAnywhere(cur, rel) == TRUE

\* os.chdir(rel) succeeds when every directory on the way exists
RECURSIVE ChdirOk(_, _)
ChdirOk(cur, rel) ==
    \/ rel = << >>
    \/ /\ Resolve(cur, << Head(rel) >>) \in Dirs
       /\ ChdirOk(Resolve(cur, << Head(rel) >>), Tail(rel))

File(dir, id, ext, kind, seg) ==
    [dir |-> dir, id |-> id, ext |-> ext, kind |-> kind, seg |-> seg]

SameName(f, dir, id, ext) == f.dir = dir /\ f.id = id /\ f.ext = ext

Exists(fs, dir, id, ext) == \E f \in fs : SameName(f, dir, id, ext)

\* open(name, 'w') / savemat(name): create the file or replace its content
Write(fs, f) == {g \in fs : ~SameName(g, f.dir, f.id, f.ext)} \cup {f}

Remove(fs, dir, id, ext) == {g \in fs : ~SameName(g, dir, id, ext)}

ReadFile(fs, dir, id, ext) == CHOOSE f \in fs : SameName(f, dir, id, ext)

\* the os.remove calls in order: the first missing file raises, the files
\* removed before it stay removed
RECURSIVE RemoveAll(_, _, _, _)
RemoveAll(fs, dir, id, exts) ==
    IF exts = << >> THEN [raised |-> FALSE, files |-> fs]
    ELSE IF ~Exists(fs, dir, id, Head(exts)) THEN [raised |-> TRUE, files |-> fs]
         ELSE RemoveAll(Remove(fs, dir, id, Head(exts)), dir, id, Tail(exts))

---------------------------------------------------------------------------
(* The external solvers.                                                   *)

IsExternal(v) == v \in {"QUIC", "BigQUIC"}

SolverDir(v) == IF v = "QUIC" THEN QuicDir ELSE BigQuicDir
ScriptExt(v) == IF v = "QUIC" THEN "m" ELSE "sh"
InExt(v) == IF v = "QUIC" THEN "in.mat" ELSE "in.txt"
OutExt(v) == IF v = "QUIC" THEN "out.mat" ELSE "out.txt"

\* what one run of the solver process does with the files: it writes the
\* output file (a result for segment seg, a singular matrix, a header with
\* another p, or garbage), or it exits without writing anything
RunSolver(v, fs, dir, id, outcome, seg) ==
    CASE outcome = "crash" -> fs
      [] outcome = "bad" -> Write(fs, File(dir, id, OutExt(v), "bad", 0))
      [] OTHER -> Write(fs, File(dir, id, OutExt(v), outcome, seg))

\* reading the output file: loadmat + inv (QUIC 441-442), or the parser, the
\* assert on p and inv (BigQUIC 529-542). ok = no exception; tag = the
\* segment whose result the file holds
ReadOutput(v, fs, dir, id) ==
    IF ~Exists(fs, dir, id, OutExt(v)) THEN [ok |-> FALSE, tag |-> 0]
    ELSE LET f == ReadFile(fs, dir, id, OutExt(v))
         IN  [ok |-> f.kind = "ok", tag |-> f.seg]

\* the files written for one segment before the solver starts: the input
\* file (QUIC 425-431, BigQUIC 505-508) and BigQUIC's command file (511-519)
WriteInputs(v, fs, dir, id, seg) ==
    IF v = "BigQUIC"
    THEN Write(Write(fs, File(dir, id, InExt(v), "in", seg)),
               File(dir, id, ScriptExt(v), "script", 0))
    ELSE Write(fs, File(dir, id, InExt(v), "in", seg))

\* the loop over the segments (QUIC 422-442 and 467-479, BigQUIC 503-542 and
\* 560-580), from segment k on, fs being the files before it; parse is FALSE
\* in timeit, which reads no output
RECURSIVE SegmentLoop(_, _, _, _, _, _, _, _, _)
\* segment k after the solver process has ended, fs being the files then
AfterSolver(v, dir, id, D, fit, k, fs, mats, parse) ==
    IF ~parse
    THEN SegmentLoop(v, dir, id, D, fit, k + 1, fs, mats, parse)
    ELSE IF ~ReadOutput(v, fs, dir, id).ok
         THEN [raised |-> TRUE, files |-> fs, mats |-> mats]
         ELSE SegmentLoop(v, dir, id, D, fit, k + 1, fs,
                          Append(mats, ReadOutput(v, fs, dir, id).tag), parse)

SegmentLoop(v, dir, id, D, fit, k, fs, mats, parse) ==
    IF k > Len(D) THEN [raised |-> FALSE, files |-> fs, mats |-> mats]
    ELSE AfterSolver(v, dir, id, D, fit, k,
                     RunSolver(v, WriteInputs(v, fs, dir, id, D[k]), dir, id,
                               fit[k], D[k]),
                     mats, parse)

\* id is the run id the call drew, 0 when it drew none
ExtResult(raised, dir, fs, mats, id) ==
    [raised |-> raised, cwd |-> dir, files |-> fs, mats |-> mats, id |-> id]

\* the end of the call (QUIC 444-448 and 481-485, BigQUIC 544-548 and
\* 582-586): rm is the outcome of the three os.remove calls
Cleanup(v, dir, id, mats, rm) ==
    IF rm.raised
    THEN ExtResult(TRUE, dir, rm.files, << >>, id)
    ELSE ExtResult(FALSE, Resolve(dir, Up(Len(SolverDir(v)))), rm.files, mats, id)

\* after the loop: an exception of the loop leaves the call at once
AfterLoop(v, dir, id, loop) ==
    IF loop.raised
    THEN ExtResult(TRUE, dir, loop.files, << >>, id)
    ELSE Cleanup(v, dir, id, loop.mats,
                 RemoveAll(loop.files, dir, id,
                           << InExt(v), OutExt(v), ScriptExt(v) >>))

\* the files when the loop starts: QUIC writes its script first (416-420)
BeforeLoop(v, fs, dir, id) ==
    IF v = "QUIC" THEN Write(fs, File(dir, id, ScriptExt(v), "script", 0)) ELSE fs

\* the call once the working directory is the solver's directory dir
InSolverDir(v, D, env, dir, fs, parse) ==
    AfterLoop(v, dir, env.id,
              SegmentLoop(v, dir, env.id, D, env.fit, 1,
                          BeforeLoop(v, fs, dir, env.id), << >>, parse))

\* QUIC._train 412-453, QUIC.timeit 457-488, BigQUIC._train 499-553,
\* BigQUIC.timeit 557-589
ExternalCall(v, D, env, curDir, fs, parse) ==
    IF ~ChdirOk(curDir, SolverDir(v))
    THEN ExtResult(TRUE, curDir, fs, << >>, 0)
    ELSE InSolverDir(v, D, env, Resolve(curDir, SolverDir(v)), fs, parse)

---------------------------------------------------------------------------
(* The parser of BigQUIC's output, lines 529-540. An output file is a      *)
(* record [p, nnz, lines]: the two numbers of its header and its entry     *)
(* lines << row, col, value >>. A matrix is a function of the 0-based      *)
(* index pairs. ReadOutput above keeps of this only whether it succeeds.   *)

\* np.zeros((nv, nv)), line 530
Zeros(nv) == [c \in (0..(nv - 1)) \X (0..(nv - 1)) |-> 0]

\* the position a numpy index names: a negative index counts from the end
Idx(i, nv) == IF i < 0 THEN i + nv ELSE i

InRange(i, nv) == Idx(i, nv) \in 0..(nv - 1)

\* line 540 with row and col taken as 0-based
StoreZeroBased(mat, row, col, value, nv) ==
    [mat EXCEPT ![<< Idx(row, nv), Idx(col, nv) >>] = value]

\* line 540: precision_mat[row-1, col-1] = value
Store(mat, row, col, value, nv) ==
    [mat EXCEPT ![<< Idx(row - 1, nv), Idx(col - 1, nv) >>] = value]

\* the result of the parser: read counts the entry lines it has read
Parsed(raised, read, mat) == [raised |-> raised, read |-> read, mat |-> mat]

\* lines 536-540, from entry line i on: a missing line does not parse (538)
\* and an index outside the matrix raises (540)
RECURSIVE ReadEntries(_, _, _, _)
ReadEntries(out, nv, i, mat) ==
    IF i > out.nnz THEN Parsed(FALSE, i - 1, mat)
    ELSE IF i > Len(out.lines) THEN Parsed(TRUE, i - 1, mat)
    ELSE IF ~(InRange(out.lines[i][1] - 1, nv) /\ InRange(out.lines[i][2] - 1, nv))
         THEN Parsed(TRUE, i, mat)
         ELSE ReadEntries(out, nv, i + 1,
                          Store(mat, out.lines[i][1], out.lines[i][2],
                                out.lines[i][3], nv))

\* lines 529-540 for a segment of nv variables: the assert of line 535
\* comes before the loop
ParseOutput(nv, out) ==
    IF out.p # nv THEN Parsed(TRUE, 0, Zeros(nv))
    ELSE ReadEntries(out, nv, 1, Zeros(nv))

---------------------------------------------------------------------------
(* The estimator adapters: _train of each Baseline subclass.               *)
(* "Diagonal" stands for the closed form fit; "LinearCorex" for the        *)
(* adapters that fit one estimator per segment and catch nothing           *)
(* (LedoitWolf, OAS, LinearCorex); "PCA" for those that catch the failure  *)
(* (PCA, SparsePCA, FactorAnalysis, GraphLasso).                           *)

Variants == {"GroundTruth", "Diagonal", "LinearCorex", "PCA",
             "LinearCorexWholeData", "TimeVaryingGraphLasso", "TCorex",
             "QUIC", "BigQUIC"}

Covs(pt, mats) == [pt |-> pt, mats |-> mats]
Model(pt) == [pt |-> pt]

\* the covs argument of GroundTruth's constructor
GivenCovs == Covs(0, << >>)

DataSets(maxSeg) == {[i \in 1..n |-> i] : n \in 0..maxSeg}

\* the adapters that fit all segments at once do not reach the fit when
\* there is no segment: np.concatenate (321) and train_data[0] (347, 366)
\* raise before it
WholeFits(D) == IF D = << >> THEN 0 ELSE 1

\* what the environment decides during one _train or timeit call: the
\* outcome of each fit (or of each run of the solver process) and the value
\* random.randint returns. For the adapters that catch the failure of a fit,
\* msg tells whether the exception they catch has a message attribute (every
\* exception of Python 2 has one, an exception of Python 3 has none unless
\* its class defines it). TVGL may return a precision matrix that has no
\* inverse ("singular")
Envs(v, D) ==
    CASE v \in {"GroundTruth", "Diagonal"} ->
            {[fit |-> << >>, id |-> 0]}
      [] v = "LinearCorex" ->
            {[fit |-> f, id |-> 0] : f \in [1..Len(D) -> {"ok", "fail"}]}
      [] v = "PCA" ->
            {[fit |-> f, id |-> 0, msg |-> m] :
                f \in [1..Len(D) -> {"ok", "fail"}], m \in BOOLEAN}
      [] v = "TCorex" ->
            {[fit |-> f, id |-> 0] : f \in [1..1 -> {"ok", "fail"}]}
      [] v = "LinearCorexWholeData" ->
            {[fit |-> f, id |-> 0] : f \in [1..WholeFits(D) -> {"ok", "fail"}]}
      [] v = "TimeVaryingGraphLasso" ->
            {[fit |-> f, id |-> 0] :
                f \in [1..WholeFits(D) -> {"ok", "fail", "singular"}]}
      [] v = "QUIC" ->
            {[fit |-> f, id |-> i] :
                f \in [1..Len(D) -> {"ok", "crash", "bad", "singular"}],
                i \in 1..MaxRunId}
      [] v = "BigQUIC" ->
            {[fit |-> f, id |-> i] :
                f \in [1..Len(D) -> {"ok", "crash", "bad", "singular", "mismatch"}],
                i \in 1..MaxRunId}

Fails(fit) == \E i \in DOMAIN fit : fit[i] = "fail"

Singular(fit) == \E i \in DOMAIN fit : fit[i] = "singular"

\* np.var(x, axis=0) of segment x: a segment is named by a number whose
\* digits in base MaxVar + 1 are the variances of its NumVars variables
Variance(x) == [j \in 1..NumVars |-> (x \div ((MaxVar + 1) ^ (j - 1))) % (MaxVar + 1)]

Max(a, b) == IF a >= b THEN a ELSE b

\* line 138 without the floor: np.diag(np.var(x, axis=0))
DiagCovNoFloor(var, minVar) ==
    [c \in (DOMAIN var) \X (DOMAIN var) |-> IF c[1] = c[2] THEN var[c[1]] ELSE 0]

\* line 138: np.diag(np.maximum(np.var(x, axis=0), self.min_var))
DiagCov(var, minVar) ==
    [c \in (DOMAIN var) \X (DOMAIN var) |->
        IF c[1] = c[2] THEN Max(var[c[1]], minVar) ELSE 0]

\* the handlers of lines 197-200, 233-236, 257-260 and 282-285 end with an
\* exception of their own when they print e.message and e has none
HandlerRaises(env, verbose) == verbose /\ ~env.msg

Result(raised, covs, method, p, dir, fs, id) ==
    [raised |-> raised, covs |-> covs, method |-> method, params |-> p,
     cwd |-> dir, files |-> fs, id |-> id]

\* params['nt'] = len(train_data), line 385 and line 397
WithNt(p, D) == [k \in DOMAIN p \cup {"nt"} |-> IF k = "nt" THEN Len(D) ELSE p[k]]

\* what _train of QUIC and BigQUIC returns (453, 553), r being the outcome
\* of the protocol
TrainResult(pt, p, r) ==
    IF r.raised
    THEN Result(TRUE, None, None, p, r.cwd, r.files, r.id)
    ELSE Result(FALSE, Covs(pt, r.mats), None, p, r.cwd, r.files, r.id)

\* self._train(train_data, params, verbose) of variant v; pt names the
\* call, self holds the fields of the instance that _train reads
Train(v, D, p, pt, env, dir, fs, self, verbose) ==
    CASE v = "GroundTruth" ->                               \* 125-126
            Result(FALSE, self.covs, None, p, dir, fs, 0)
      [] v = "Diagonal" ->                                  \* 134-142
            Result(FALSE,
                   Covs(pt, [i \in DOMAIN D |-> DiagCov(Variance(D[i]), self.min_var)]),
                   None, p, dir, fs, 0)
      [] v = "LinearCorex" ->                               \* 296-310
            IF Fails(env.fit)
            THEN Result(TRUE, None, None, p, dir, fs, 0)
            ELSE Result(FALSE, Covs(pt, D), None, p, dir, fs, 0)
      [] v = "PCA" ->                                       \* 187-204
            IF Fails(env.fit)
            THEN Result(HandlerRaises(env, verbose), None, None, p, dir, fs, 0)
            ELSE Result(FALSE, Covs(pt, D), None, p, dir, fs, 0)
      [] v = "LinearCorexWholeData" ->                      \* 317-330
            IF D = << >> \/ Fails(env.fit)
            THEN Result(TRUE, None, None, p, dir, fs, 0)
            ELSE Result(FALSE, Covs(pt, [i \in DOMAIN D |-> 0]), Model(pt), p, dir, fs, 0)
      [] v = "TimeVaryingGraphLasso" ->                     \* 337-356
            IF D = << >> \/ Fails(env.fit) \/ Singular(env.fit)
            THEN Result(TRUE, None, None, p, dir, fs, 0)
            ELSE Result(FALSE, Covs(pt, D), None, p, dir, fs, 0)
      [] v = "TCorex" ->                                    \* 380-393
            IF Fails(env.fit)
            THEN Result(TRUE, None, None, WithNt(p, D), dir, fs, 0)
            ELSE Result(FALSE, Covs(pt, D), Model(pt), WithNt(p, D), dir, fs, 0)
      [] IsExternal(v) ->                                   \* 408-453, 495-553
            TrainResult(pt, p, ExternalCall(v, D, env, dir, fs, TRUE))

\* timeit returns a duration: the result r of the work it timed is dropped
Timed(r) == Result(r.raised, None, None, r.params, r.cwd, r.files, r.id)

\* Baseline.timeit for every variant: the whole of _train, parsing and
\* inversion included, runs between the two time stamps
TimeitViaTrain(v, D, p, env, dir, fs, self) ==
    Timed(Train(v, D, p, 0, env, dir, fs, self, FALSE))

\* the timeit method of variant v
TimeitCall(v, D, p, env, dir, fs, self) ==
    CASE v = "TimeVaryingGraphLasso" ->                     \* 358-372
            Result(D = << >> \/ Fails(env.fit), None, None, p, dir, fs, 0)
      [] v = "TCorex" ->                                    \* 395-401
            Result(Fails(env.fit), None, None, WithNt(p, D), dir, fs, 0)
      [] IsExternal(v) ->                                   \* 455-488, 555-589
            Timed(TrainResult(0, p, ExternalCall(v, D, env, dir, fs, FALSE)))
      [] OTHER ->                                           \* 111-115
            Timed(Train(v, D, p, 0, env, dir, fs, self, FALSE))

\* utils.calculate_nll_score(data, covs) may return s: None for covs gives NaN
CanScore(covs, s) == (covs = None) => IsNaN(s)

---------------------------------------------------------------------------
(* The state machine.                                                      *)

\* how a call ended; id is the run id it drew last, 0 when it drew none
Outcome(op, raised, val, id) ==
    [op |-> op, outcome |-> IF raised THEN "raised" ELSE "returned",
     val |-> val, id |-> id]

\* the call that began: its train_data, params and verbose arguments, the
\* working directory then and what the environment decides for its fits
CallInfo(op, D, p0, dir0, fit, verbose) ==
    [op |-> op, data |-> D, params0 |-> p0, cwd0 |-> dir0, fit |-> fit,
     verbose |-> verbose]

\* the fields of the instance that _train reads
Self == [covs |-> self_covs, min_var |-> self_min_var]

\* no select is running: its locals do not exist
NoFrame ==
    /\ train_data = << >>
    /\ const_params = << >>
    /\ grid = << >>
    /\ index = 0
    /\ best_score = InitBestScore
    /\ best_params = None
    /\ best_covs = None
    /\ best_method = None

\* select ends: its locals are gone
DropFrame ==
    /\ train_data' = << >>
    /\ const_params' = << >>
    /\ grid' = << >>
    /\ index' = 0
    /\ best_score' = InitBestScore
    /\ best_params' = None
    /\ best_covs' = None
    /\ best_method' = None

\* Baseline.__init__ 22-28, GroundTruth.__init__ 119-123
InitOf(V) ==
    /\ variant \in V
    /\ self_trained = (variant = "GroundTruth")
    /\ self_val_score = NoScore
    /\ self_params = None
    /\ self_covs = IF variant = "GroundTruth" THEN GivenCovs ELSE None
    /\ self_method = None
    /\ self_min_var = DefaultMinVar
    /\ cwd = Root
    /\ files = {}
    /\ pc = "idle"
    /\ caller_params = None
    /\ NoFrame
    /\ trainLog = << >>
    /\ scoreLog = << >>
    /\ selects = FALSE
    /\ call = CallInfo("__init__", << >>, None, Root, << >>, FALSE)
    /\ parsed = None
    /\ ret = Outcome("__init__", FALSE, None, 0)

\* Diagonal.__init__(min_var), lines 130-132: a new instance
DiagonalInit(minVar) ==
    /\ pc = "idle"
    /\ variant = "Diagonal"
    /\ self_trained' = FALSE
    /\ self_val_score' = NoScore
    /\ self_params' = None
    /\ self_covs' = None
    /\ self_method' = None
    /\ self_min_var' = minVar
    /\ caller_params' = None
    /\ trainLog' = << >>
    /\ scoreLog' = << >>
    /\ selects' = FALSE
    /\ call' = CallInfo("__init__", << >>, None, cwd, << >>, FALSE)
    /\ ret' = Outcome("__init__", FALSE, None, 0)
    /\ UNCHANGED << variant, parsed, cwd, files, pc, train_data, const_params, grid,
                    index, best_score, best_params, best_covs, best_method >>

\* BigQUIC._train, lines 529-540, for one segment of nv variables and the
\* output file out
ParseSegment(nv, out) ==
    /\ pc = "idle"
    /\ variant = "BigQUIC"
    /\ parsed' = [nv |-> nv, out |-> out, result |-> ParseOutput(nv, out)]
    /\ UNCHANGED << variant, facade, self_min_var, cwd, files, pc, locals,
                    trainLog, scoreLog, selects, call, ret >>

\* select that clears the trained flag while it searches
SelectBeginResets(P, D, verbose) ==
    /\ pc = "idle"
    /\ pc' = "select"
    /\ caller_params' = P
    /\ train_data' = D
    /\ const_params' = DictOf(ConstParamsOf(P))
    /\ grid' = GridOf(P)
    /\ index' = 0
    /\ best_score' = InitBestScore
    /\ best_params' = None
    /\ best_covs' = None
    /\ best_method' = None
    /\ trainLog' = << >>
    /\ scoreLog' = << >>
    /\ call' = CallInfo("select", D, P, cwd, << >>, verbose)
    /\ self_trained' = FALSE
    /\ UNCHANGED << variant, parsed, self_val_score, self_params, self_covs,
                    self_method, self_min_var, cwd, files, selects, ret >>

\* select, lines 30-58: the locals, the constants, the axes and the grid
SelectBegin(P, D, verbose) ==
    /\ pc = "idle"
    /\ pc' = "select"
    /\ caller_params' = P
    /\ train_data' = D
    /\ const_params' = DictOf(ConstParamsOf(P))
    /\ grid' = GridOf(P)
    /\ index' = 0
    /\ best_score' = InitBestScore
    /\ best_params' = None
    /\ best_covs' = None
    /\ best_method' = None
    /\ trainLog' = << >>
    /\ scoreLog' = << >>
    /\ call' = CallInfo("select", D, P, cwd, << >>, verbose)
    /\ UNCHANGED << variant, parsed, facade, self_min_var, cwd, files, selects, ret >>

\* select, lines 69-71 and the arguments of line 72
CurTrain(env) ==
    Train(variant, train_data, CurParams(grid[index + 1], const_params),
          index + 1, env, cwd, files, Self, call.verbose)

\* select, lines 73-82: r is what _train returned
Retain(r, cur_score) ==
    /\ ~r.raised
    /\ CanScore(r.covs, cur_score)
    /\ scoreLog' = Append(scoreLog, cur_score)
    /\ cwd' = r.cwd
    /\ files' = r.files
    /\ IF Replaces(best_params, best_score, cur_score)
       THEN /\ best_score' = cur_score
            /\ best_params' = r.params
            /\ best_covs' = r.covs
            /\ best_method' = r.method
       ELSE UNCHANGED << best_score, best_params, best_covs, best_method >>

\* select, lines 60-82: one grid point whose _train returns
SelectStep(env, cur_score) ==
    /\ pc = "select"
    /\ index < Len(grid)
    /\ Retain(CurTrain(env), cur_score)
    /\ trainLog' = Append(trainLog, CurParams(grid[index + 1], const_params))
    /\ index' = index + 1
    /\ UNCHANGED << variant, parsed, facade, self_min_var, pc, caller_params,
                    train_data, const_params, grid, selects, call, ret >>

\* the exception of _train leaves select: r is the state _train left
Propagate(r) ==
    /\ r.raised
    /\ cwd' = r.cwd
    /\ files' = r.files
    /\ ret' = Outcome("select", TRUE, None, r.id)

\* select with a handler that stores the best result so far when _train
\* raises
SelectRaiseStores(env) ==
    /\ pc = "select"
    /\ index < Len(grid)
    /\ Propagate(CurTrain(env))
    /\ trainLog' = Append(trainLog, CurParams(grid[index + 1], const_params))
    /\ pc' = "idle"
    /\ self_trained' = TRUE
    /\ self_val_score' = best_score
    /\ self_params' = best_params
    /\ self_covs' = best_covs
    /\ self_method' = best_method
    /\ DropFrame
    /\ UNCHANGED << variant, parsed, self_min_var, caller_params, scoreLog, selects, call >>

\* select, line 72: _train raises
SelectRaise(env) ==
    /\ pc = "select"
    /\ index < Len(grid)
    /\ Propagate(CurTrain(env))
    /\ trainLog' = Append(trainLog, CurParams(grid[index + 1], const_params))
    /\ pc' = "idle"
    /\ DropFrame
    /\ UNCHANGED << variant, parsed, facade, self_min_var, caller_params, scoreLog,
                    selects, call >>

\* select, lines 83-92: the loop is over
SelectFinish ==
    /\ pc = "select"
    /\ index = Len(grid)
    /\ self_trained' = TRUE
    /\ self_val_score' = best_score
    /\ self_params' = best_params
    /\ self_covs' = best_covs
    /\ self_method' = best_method
    /\ ret' = Outcome("select", FALSE,
                      << best_score, best_params, best_covs, best_method >>, 0)
    /\ selects' = TRUE
    /\ pc' = "idle"
    /\ DropFrame
    /\ UNCHANGED << variant, parsed, self_min_var, cwd, files, caller_params,
                    trainLog, scoreLog, call >>

\* evaluate without the assert of line 99
EvaluateUnchecked(nll) ==
    /\ pc = "idle"
    /\ CanScore(self_covs, nll)
    /\ ret' = Outcome("evaluate", FALSE, nll, 0)
    /\ call' = CallInfo("evaluate", << >>, None, cwd, << >>, TRUE)
    /\ UNCHANGED << variant, parsed, facade, self_min_var, cwd, files, pc, locals, trainLog,
                    scoreLog, selects >>

\* evaluate, lines 98-105
Evaluate(nll) ==
    /\ pc = "idle"
    /\ IF ~self_trained
       THEN ret' = Outcome("evaluate", TRUE, None, 0)
       ELSE /\ CanScore(self_covs, nll)
            /\ ret' = Outcome("evaluate", FALSE, nll, 0)
    /\ call' = CallInfo("evaluate", << >>, None, cwd, << >>, TRUE)
    /\ UNCHANGED << variant, parsed, facade, self_min_var, cwd, files, pc, locals, trainLog,
                    scoreLog, selects >>

\* get_covariance, lines 107-109
GetCovariance ==
    /\ pc = "idle"
    /\ IF ~self_trained
       THEN ret' = Outcome("get_covariance", TRUE, None, 0)
       ELSE ret' = Outcome("get_covariance", FALSE, self_covs, 0)
    /\ call' = CallInfo("get_covariance", << >>, None, cwd, << >>, FALSE)
    /\ UNCHANGED << variant, parsed, facade, self_min_var, cwd, files, pc, locals, trainLog,
                    scoreLog, selects >>

\* the caller's view when the call ends: r is its outcome, val the value of
\* the call (when it returns). The params argument is an object: what the
\* callee wrote to it shows in the caller's mapping, and in self._params
\* when the caller passed that very object (own), the one select returned
EndCall(op, own, r, val) ==
    /\ caller_params' = r.params
    /\ self_params' = IF own THEN r.params ELSE self_params
    /\ cwd' = r.cwd
    /\ files' = r.files
    /\ ret' = Outcome(op, r.raised, IF r.raised THEN None ELSE val, r.id)

\* the params argument p is the object self._params refers to
IsStored(p) == self_params # None /\ p = self_params

\* timeit of the instance's class
Timeit(D, p, own, env) ==
    /\ pc = "idle"
    /\ own => IsStored(p)
    /\ call' = CallInfo("timeit", D, p, cwd, env.fit, FALSE)
    /\ EndCall("timeit", own,
               TimeitCall(variant, D, p, env, cwd, files, Self), None)
    /\ UNCHANGED << variant, parsed, self_trained, self_val_score, self_covs,
                    self_method, self_min_var, pc, train_data, const_params, grid, index,
                    best_score, best_params, best_covs, best_method,
                    trainLog, scoreLog, selects >>

TrainValue(r) == << r.covs, r.method >>

\* a direct call of _train
CallTrain(D, p, own, env, verbose) ==
    /\ pc = "idle"
    /\ own => IsStored(p)
    /\ call' = CallInfo("_train", D, p, cwd, env.fit, verbose)
    /\ EndCall("_train", own,
               Train(variant, D, p, 0, env, cwd, files, Self, verbose),
               TrainValue(Train(variant, D, p, 0, env, cwd, files, Self, verbose)))
    /\ UNCHANGED << variant, parsed, self_trained, self_val_score, self_covs,
                    self_method, self_min_var, pc, train_data, const_params, grid, index,
                    best_score, best_params, best_covs, best_method,
                    trainLog, scoreLog, selects >>

---------------------------------------------------------------------------
(* The specifications.                                                     *)

ScoreSet(n) == {NaN} \cup (1..n)

\* the ParamSpecs with at most one entry, a list of up to maxLen candidates
SingleAxisSpecs(maxLen) ==
    {<< >>} \cup {<< ListEntry("a", ValueList(n)) >> : n \in 0..maxLen}

TimeitMaps == {[k \in {"a"} |-> 1]}

\* the params arguments of a call: a mapping of the caller's own, or (own)
\* the object select returned, which is self._params
ParamArgs(own) == IF own THEN {self_params} ELSE TimeitMaps

(* The facade: one instance of any class, under every sequence of calls.   *)

Init == InitOf(Variants)

Next ==
    \/ \E P \in SingleAxisSpecs(FacadeLen), D \in DataSets(FacadeSeg) :
          \E verbose \in BOOLEAN : SelectBegin(P, D, verbose)
    \/ \E env \in Envs(variant, train_data), s \in ScoreSet(FacadeScore) :
          SelectStep(env, s)
    \/ \E env \in Envs(variant, train_data) : SelectRaise(env)
    \/ SelectFinish
    \/ \E nll \in ScoreSet(FacadeScore) : Evaluate(nll)
    \/ GetCovariance
    \/ \E D \in DataSets(FacadeSeg), own \in BOOLEAN :
          \E p \in ParamArgs(own), env \in Envs(variant, D) :
              Timeit(D, p, own, env)

Spec == Init /\ [][Next]_vars

(* The search: one select over one axis of up to MaxGrid candidates, with  *)
(* every sequence of scores; "PCA" makes failed grid points (None, NaN).   *)

OneSegment == << 1 >>

SearchScores == {NaN} \cup (LowScore..MaxScore)

InitSearch == InitOf({"Diagonal", "PCA"})

NextSearch ==
    \/ \E P \in SingleAxisSpecs(MaxGrid), verbose \in BOOLEAN :
          ~selects /\ SelectBegin(P, OneSegment, verbose)
    \/ \E env \in Envs(variant, train_data), s \in SearchScores : SelectStep(env, s)
    \/ SelectFinish

SpecSearch == InitSearch /\ [][NextSearch]_vars

(* The grid: one select for every ParamSpec within the bounds.             *)

InitGrid == InitOf({"Diagonal"})

NextGrid ==
    \/ \E P \in ParamSpecs(MaxEntries, MaxInner, MaxLen) :
          \E verbose \in BOOLEAN : ~selects /\ SelectBegin(P, OneSegment, verbose)
    \/ \E env \in Envs(variant, train_data) : SelectStep(env, LowScore)
    \/ SelectFinish

SpecGrid == InitGrid /\ [][NextGrid]_vars

(* The external solvers: direct _train calls and timeit calls of QUIC and  *)
(* BigQUIC, with every outcome of every run of the solver process.         *)

InitExt == InitOf({"QUIC", "BigQUIC"})

NextExt ==
    \/ \E D \in DataSets(MaxSeg), p \in TimeitMaps :
          \E env \in Envs(variant, D) : Timeit(D, p, FALSE, env)
    \/ \E D \in DataSets(MaxSeg), p \in TimeitMaps :
          \E env \in Envs(variant, D), verbose \in BOOLEAN :
              CallTrain(D, p, FALSE, env, verbose)

SpecExt == InitExt /\ [][NextExt]_vars

(* The catching adapters: direct _train calls, timeit calls and selects of *)
(* a PCA instance, with every outcome of every fit.                        *)

InitCatch == InitOf({"PCA"})

NextCatch ==
    \/ \E D \in DataSets(MaxSeg), p \in TimeitMaps :
          \E env \in Envs(variant, D), verbose \in BOOLEAN :
              CallTrain(D, p, FALSE, env, verbose)
    \/ \E D \in DataSets(MaxSeg), p \in TimeitMaps :
          \E env \in Envs(variant, D) : Timeit(D, p, FALSE, env)
    \/ \E P \in SingleAxisSpecs(FacadeLen), D \in DataSets(MaxSeg) :
          \E verbose \in BOOLEAN : SelectBegin(P, D, verbose)
    \/ \E env \in Envs(variant, train_data), s \in ScoreSet(FacadeScore) :
          SelectStep(env, s)
    \/ \E env \in Envs(variant, train_data) : SelectRaise(env)
    \/ SelectFinish

SpecCatch == InitCatch /\ [][NextCatch]_vars

(* The solver-backed methods: direct _train calls and timeit calls of      *)
(* QUIC, BigQUIC and TimeVaryingGraphLasso.                                *)

SolverBacked(v) == v \in {"QUIC", "BigQUIC", "TimeVaryingGraphLasso"}

InitSolver == InitOf({v \in Variants : SolverBacked(v)})

NextSolver ==
    \/ \E D \in DataSets(MaxSeg), p \in TimeitMaps :
          \E env \in Envs(variant, D) : Timeit(D, p, FALSE, env)
    \/ \E D \in DataSets(MaxSeg), p \in TimeitMaps :
          \E env \in Envs(variant, D), verbose \in BOOLEAN :
              CallTrain(D, p, FALSE, env, verbose)

SpecSolver == InitSolver /\ [][NextSolver]_vars

(* The diagonal estimator: _train of Diagonal instances built with every   *)
(* min_var, on every data set of up to MaxSeg segments whose variables     *)
(* have every variance in 0..MaxVar, with every min_var in params.         *)

MinVars == 1..MaxMinVar

Segments == 0..((MaxVar + 1) ^ NumVars - 1)

SegmentSets(maxSeg) == UNION {[1..n -> Segments] : n \in 0..maxSeg}

MinVarMaps == {[k \in {"min_var"} |-> m] : m \in MinVars}

InitDiag == InitOf({"Diagonal"})

NextDiag ==
    \/ \E m \in MinVars : DiagonalInit(m)
    \/ \E D \in SegmentSets(MaxSeg), p \in MinVarMaps :
          \E env \in Envs(variant, D), verbose \in BOOLEAN :
              CallTrain(D, p, FALSE, env, verbose)

SpecDiag == InitDiag /\ [][NextDiag]_vars

(* The parser: every header and up to MaxNnz entry lines, for every nv.    *)

EntryLines == (1..MaxP) \X (1..MaxP) \X (1..MaxVal)

OutFiles ==
    [p : 1..MaxP, nnz : 0..MaxNnz,
     lines : UNION {[1..n -> EntryLines] : n \in 0..MaxNnz}]

InitParse == InitOf({"BigQUIC"})

NextParse == \E nv \in 1..MaxP, out \in OutFiles : ParseSegment(nv, out)

SpecParse == InitParse /\ [][NextParse]_vars

---------------------------------------------------------------------------
(* The claims.                                                             *)

\* the scores of the tie-break example and the retained best after each
TieScores == << NaN, 5, 3, NaN, 4 >>
TieBests == << NaN, 5, 3, 3, 3 >>

IsPrefix(s, t) == Len(s) <= Len(t) /\ s = SubSeq(t, 1, Len(s))

\* C1: while select has evaluated the first n scores of NaN, 5, 3, NaN, 4
\* (n = 1..5), the retained best score is the n-th of NaN, 5, 3, 3, 3: the
\* NaN of the first grid point is replaced by the first non-NaN score.
C1_NaNFirstIsReplaced ==
    (pc = "select" /\ scoreLog # << >> /\ IsPrefix(scoreLog, TieScores))
        => best_score = TieBests[Len(scoreLog)]

\* C2: in select, a grid point that is not the first and scores NaN leaves
\* the retained best as it is, and a retained score that is not NaN stays
\* not NaN up to the end of the search.
C2_NaNNeverReplaces ==
    [][(pc = "select" /\ pc' = "select" /\ index >= 1 /\ index' = index + 1)
         => /\ IsNaN(scoreLog'[index'])
                => << best_score, best_params, best_covs, best_method >>'
                     = << best_score, best_params, best_covs, best_method >>
            /\ ~IsNaN(best_score) => ~IsNaN(best_score')]_vars

\* C2 witness: a NaN score was evaluated after a numeric best was retained
C2_Witness ==
    /\ pc = "select"
    /\ index >= 2
    /\ ~IsNaN(scoreLog[1])
    /\ IsNaN(scoreLog[index])
    /\ ~IsNaN(best_score)

\* the last select has returned and nothing runs
SelectReturned == pc = "idle" /\ ret.op = "select" /\ ret.outcome = "returned"

Lens(sub) == [i \in DOMAIN sub |-> Len(sub[i].xs)]

\* the grid size of the claim: a dict entry counts the product of its inner
\* list sizes
ClaimedSize(e) ==
    CASE e.kind = "list" -> Len(e.xs)
      [] e.kind = "dict" -> SeqProd(Lens(e.sub))
      [] OTHER -> 1

\* the grid size of the code: a dict entry counts the sum of its inner list
\* sizes
AxisSize(e) ==
    CASE e.kind = "list" -> Len(e.xs)
      [] e.kind = "dict" -> SeqSum(Lens(e.sub))
      [] OTHER -> 1

\* no list of P is empty and every dict of P has an inner key
NonDegenerate(P) ==
    \A i \in DOMAIN P :
        /\ P[i].kind = "list" => P[i].xs # << >>
        /\ P[i].kind = "dict" =>
              (P[i].sub # << >> /\ \A j \in DOMAIN P[i].sub : P[i].sub[j].xs # << >>)

\* C3 as claimed: when select returns, the number of _train calls is the
\* product of the sizes of all swept axes, a dict-valued entry giving one
\* axis per inner key (the product of its inner list sizes). Stated for the
\* ParamSpecs without empty lists and empty dicts.
C3_ProductOfInnerAxes ==
    (SelectReturned /\ NonDegenerate(call.params0)) =>
        Len(trainLog) = SeqProd([i \in DOMAIN call.params0 |-> ClaimedSize(call.params0[i])])

\* C3 amended: when select returns, the number of _train calls is the
\* product of the axis sizes, a list-valued entry being an axis of its
\* length and a dict-valued entry ONE axis whose size is the sum of its
\* inner list sizes; constant entries do not count.
C3_ProductOfAxes ==
    SelectReturned =>
        Len(trainLog) = SeqProd([i \in DOMAIN call.params0 |-> AxisSize(call.params0[i])])

\* C3 witness: a select over a dict with inner lists of sizes 1 and 2 and a
\* constant has returned after 3 grid points
C3_Witness ==
    /\ SelectReturned
    /\ Len(trainLog) = 3
    /\ \E i, j \in DOMAIN call.params0 :
          /\ call.params0[i].kind = "dict"
          /\ Lens(call.params0[i].sub) = << 1, 2 >>
          /\ call.params0[j].kind = "const"

NoAxes(P) == \A i \in DOMAIN P : P[i].kind = "const"

\* C4: for a ParamSpec without list and dict entries the grid of select has
\* exactly one point, and _train has been called exactly once when select
\* returns.
C4_OnePointWithoutAxes ==
    (call.op = "select" /\ NoAxes(call.params0)) =>
        /\ pc = "select" => (Len(grid) = 1 /\ Len(trainLog) <= 1)
        /\ SelectReturned => Len(trainLog) = 1

\* C4 witness: a select over two constants has returned
C4_Witness ==
    /\ SelectReturned
    /\ Len(call.params0) = 2
    /\ NoAxes(call.params0)
    /\ Len(trainLog) = 1

\* C10: every mapping select passes to _train maps each constant ParamSpec
\* key to its constant value, also when an axis carries the same key.
C10_ConstantWins ==
    call.op = "select" =>
        \A n \in DOMAIN trainLog : \A i \in DOMAIN call.params0 :
            call.params0[i].kind = "const" =>
                /\ call.params0[i].k \in DOMAIN trainLog[n]
                /\ trainLog[n][call.params0[i].k] = call.params0[i].v

\* C10 witness: _train was called for a grid point that gives key "a" a
\* candidate of a dict entry while "a" is a constant entry too
C10_Witness ==
    /\ pc = "select"
    /\ index >= 1
    /\ \E i, j \in DOMAIN call.params0 :
          /\ call.params0[i] = ConstEntry("a", ConstVal)
          /\ call.params0[j].kind = "dict"
    /\ grid[index][1][1] = "a"
    /\ grid[index][1][2] # trainLog[index]["a"]

\* the last call was a direct call of an External Process Adapter operation
ExternalEnded == IsExternal(variant) /\ ret.op \in {"_train", "timeit"}

\* C5: after a call of QUIC/BigQUIC _train or timeit, however it ended, no
\* file named by the run id of the call remains and the working directory
\* is the one the call started in.
C5_WorkspaceCleanedUp ==
    ExternalEnded =>
        /\ cwd = call.cwd0
        /\ \A f \in files : f.id # ret.id

\* C6: a _train call of QUIC/BigQUIC during which the solver process
\* crashed or wrote a malformed output, for whatever segment, ends with an
\* exception.
C6_SolverFailureIsFatal ==
    (ExternalEnded /\ ret.op = "_train"
        /\ \E k \in DOMAIN call.fit : call.fit[k] \in {"crash", "bad"})
        => ret.outcome = "raised"

\* a select call has not yet returned on the instance
BeforeSelect == ~selects

\* C7 as claimed: on every instance, evaluate and get_covariance called
\* before any select has returned end with the failed assertion.
C7_UntrainedCallsFail ==
    (BeforeSelect /\ ret.op \in {"evaluate", "get_covariance"})
        => ret.outcome = "raised"

\* C7 amended: on every instance that is not a GroundTruth, evaluate and
\* get_covariance called before any select has returned end with the failed
\* assertion; a GroundTruth is trained by its constructor, and there they
\* return.
C7_UntrainedCallsFailUnlessGroundTruth ==
    (BeforeSelect /\ ret.op \in {"evaluate", "get_covariance"})
        => (ret.outcome = "raised" <=> variant # "GroundTruth")

\* C7 witness: evaluate has failed on an instance that selected nothing yet
C7_Witness ==
    /\ BeforeSelect
    /\ variant = "PCA"
    /\ ret.op = "evaluate"
    /\ ret.outcome = "raised"

\* C8: when select returns, the stored result is the returned tuple, and a
\* step changes _trained, _val_score, _params, _covs or _method only if it
\* is the return of a select; evaluate, get_covariance and timeit change
\* none of them.
C8_ResultStableUntilSelect ==
    /\ [](SelectReturned =>
            /\ self_trained
            /\ << self_val_score, self_params, self_covs, self_method >> = ret.val)
    /\ [][facade' # facade =>
            (pc = "select" /\ pc' = "idle" /\ ret'.op = "select"
                /\ ret'.outcome = "returned")]_vars

\* C9: the trained flag never goes back to false, whatever is called and
\* also when a select ends with an exception, and it becomes true only by
\* the return of a select.
C9_TrainedIsOneWay ==
    /\ [][self_trained => self_trained']_vars
    /\ [][(~self_trained /\ self_trained') =>
            (pc = "select" /\ index = Len(grid) /\ ret'.op = "select"
                /\ ret'.outcome = "returned")]_vars

\* C9 witness: a select has ended with an exception on a trained instance
C9_Witness ==
    /\ selects
    /\ self_trained
    /\ ret.op = "select"
    /\ ret.outcome = "raised"

\* the last call was a direct _train call of a catching adapter
CatchingTrainEnded == variant = "PCA" /\ ret.op = "_train"

\* C11: a _train call of PCA, SparsePCA, FactorAnalysis or GraphLasso in
\* which the fit of some segment failed returns (None, None), whatever
\* verbose is; a call in which no fit failed returns one covariance per
\* segment, in segment order.
C11_FailureGivesNone ==
    CatchingTrainEnded =>
        /\ ret.outcome = "returned"
        /\ ret.val = IF Fails(call.fit)
                     THEN << None, None >>
                     ELSE << Covs(0, [i \in DOMAIN call.fit |-> i]), None >>

\* the grid point n of the running or last select, as line 69-71 build it
PointParams(P, n) == CurParams(GridOf(P)[n], DictOf(ConstParamsOf(P)))

\* C12: a select on an adapter that catches the failure of a fit never ends
\* with an exception: it trains every grid point once, in product order,
\* and scores each before it trains the next.
C12_FailureDoesNotStopSearch ==
    (variant = "PCA" /\ call.op = "select") =>
        /\ Len(trainLog) <= Len(GridOf(call.params0))
        /\ \A n \in DOMAIN trainLog : trainLog[n] = PointParams(call.params0, n)
        /\ pc = "select" => (Len(trainLog) = index /\ Len(scoreLog) = index)
        /\ pc = "idle" =>
              /\ ret.outcome = "returned"
              /\ Len(trainLog) = Len(GridOf(call.params0))
              /\ Len(scoreLog) = Len(trainLog)

\* every run of the solver ended with a result that cannot be post-processed:
\* an output that does not parse, a header with another p, or a precision
\* matrix without an inverse
Unprocessable(fit) ==
    /\ fit # << >>
    /\ \A k \in DOMAIN fit : fit[k] \in {"bad", "mismatch", "singular"}

\* C13: timeit of QUIC, BigQUIC and TimeVaryingGraphLasso parses no output
\* and inverts no matrix: a call started in the root directory in which
\* every run of the solver gave a result that cannot be parsed or inverted
\* returns its duration, while _train ends with the exception of the parser
\* or of the inversion for the same runs.
C13_TimeitSkipsPostProcessing ==
    (SolverBacked(variant) /\ call.cwd0 = Root /\ Unprocessable(call.fit)) =>
        /\ ret.op = "timeit" => ret.outcome = "returned"
        /\ ret.op = "_train" => ret.outcome = "raised"

\* C13 witness: BigQUIC.timeit has returned after the solver wrote a header
\* with another p for segment 1 and a singular matrix for segment 2
C13_Witness ==
    /\ variant = "BigQUIC"
    /\ ret.op = "timeit"
    /\ ret.outcome = "returned"
    /\ call.cwd0 = Root
    /\ call.fit = << "mismatch", "singular" >>

\* C14: when a select or a timeit call has ended, on whatever variant, the
\* mapping the caller passed as params has the keys and values it had when
\* the call began.
C14_ParamsReadOnly ==
    (pc = "idle" /\ call.op \in {"select", "timeit"} /\ call.params0 # None)
        => caller_params = call.params0

\* the last call was Diagonal._train with a min_var entry in params
DiagonalTrainEnded ==
    variant = "Diagonal" /\ ret.op = "_train" /\ "min_var" \in DOMAIN call.params0

\* the call returned one matrix per segment, each with zeros off the
\* diagonal and no diagonal entry below floor
DiagonalAbove(floor) ==
    /\ ret.outcome = "returned"
    /\ Len(ret.val[1].mats) = Len(call.data)
    /\ \A k \in DOMAIN ret.val[1].mats : \A i, j \in 1..NumVars :
          /\ i # j => ret.val[1].mats[k][<< i, j >>] = 0
          /\ ret.val[1].mats[k][<< i, i >>] >= floor

\* C15 as claimed: Diagonal._train returns one matrix per segment, each
\* diagonal, with every diagonal entry at least the min_var given as a
\* constant of the ParamSpec (the min_var of the params of the call).
C15_FloorIsParamsMinVar ==
    DiagonalTrainEnded => DiagonalAbove(call.params0["min_var"])

\* C15 amended: Diagonal._train returns one matrix per segment, each
\* diagonal, with every diagonal entry at least the min_var the instance was
\* constructed with, and at least the variance of its variable; the min_var
\* of params is not read.
C15_FloorIsConstructorMinVar ==
    DiagonalTrainEnded =>
        /\ DiagonalAbove(self_min_var)
        /\ \A k \in DOMAIN call.data : \A i \in 1..NumVars :
              ret.val[1].mats[k][<< i, i >>] >= Variance(call.data[k])[i]

\* C15 witness: an instance built with the default min_var has returned, for
\* two segments and a larger min_var in params, a matrix with a diagonal
\* entry at the default
C15_Witness ==
    /\ DiagonalTrainEnded
    /\ ret.outcome = "returned"
    /\ self_min_var = DefaultMinVar
    /\ call.params0["min_var"] > DefaultMinVar
    /\ Len(call.data) = 2
    /\ \E i \in 1..NumVars : ret.val[1].mats[1][<< i, i >>] = DefaultMinVar

\* the step ends a select with the exception of _train
SelectRaised == pc = "select" /\ pc' = "idle" /\ ret'.outcome = "raised"

\* C16: when _train raises during select, select ends with that exception
\* at once, having trained the failing grid point and none after it, and no
\* step of the select has changed _trained, _val_score, _params, _covs or
\* _method; no grid point is trained until the next select begins.
C16_RaisePropagates ==
    /\ [][SelectRaised =>
            /\ ret'.op = "select"
            /\ facade' = facade
            /\ Len(trainLog') = index + 1
            /\ Len(scoreLog') = index]_vars
    /\ [][(pc' = "select") => facade' = facade]_vars
    /\ [][(pc = "idle" /\ pc' = "idle") => trainLog' = trainLog]_vars

\* C16 witness: a select has ended with an exception at its second grid
\* point on an instance that keeps the result of an earlier select
C16_Witness ==
    /\ selects
    /\ self_trained
    /\ self_params # None
    /\ call.op = "select"
    /\ pc = "idle"
    /\ ret.outcome = "raised"
    /\ Len(trainLog) = 2

\* score, params, covs and method are those of grid point n of the search
FromPoint(n, score, params, covs, method) ==
    /\ score = scoreLog[n]
    /\ params = trainLog[n]
    /\ covs = None \/ covs.pt = n
    /\ method = None

\* grid point n has the lowest score of the evaluated grid points, and is
\* the earliest of those that have it
EarliestLowest(n) ==
    \A k \in DOMAIN scoreLog :
        ~IsNaN(scoreLog[k]) =>
            /\ ~IsNaN(scoreLog[n])
            /\ scoreLog[n] <= scoreLog[k]
            /\ scoreLog[k] = scoreLog[n] => n <= k

\* C17: at every step of select and in its result, the retained score,
\* params, covariances and model are those of one evaluated grid point, the
\* earliest in product order among those with the lowest score (a later
\* candidate replaces the retained one only when its score is strictly
\* lower).
C17_RetainedIsEarliestLowest ==
    /\ (pc = "select" /\ index >= 1) =>
          \E n \in DOMAIN scoreLog :
              /\ FromPoint(n, best_score, best_params, best_covs, best_method)
              /\ EarliestLowest(n)
    /\ (SelectReturned /\ scoreLog # << >>) =>
          \E n \in DOMAIN scoreLog :
              /\ FromPoint(n, ret.val[1], ret.val[2], ret.val[3], ret.val[4])
              /\ EarliestLowest(n)

\* the first nnz entry lines of the output exist, name positions of an
\* nv x nv matrix, and no two of them name the same position
WellFormed(nv, out) ==
    /\ out.nnz <= Len(out.lines)
    /\ \A i \in 1..out.nnz :
          out.lines[i][1] \in 1..nv /\ out.lines[i][2] \in 1..nv
    /\ \A i, j \in 1..out.nnz :
          (i # j) => << out.lines[i][1], out.lines[i][2] >>
                        # << out.lines[j][1], out.lines[j][2] >>

\* the dense matrix the nnz entry lines describe
Dense(nv, out) ==
    [c \in (0..(nv - 1)) \X (0..(nv - 1)) |->
        IF \E i \in 1..out.nnz : << out.lines[i][1] - 1, out.lines[i][2] - 1 >> = c
        THEN out.lines[CHOOSE i \in 1..out.nnz :
                          << out.lines[i][1] - 1, out.lines[i][2] - 1 >> = c][3]
        ELSE 0]

\* C18: the parser of BigQUIC._train fails before it reads any entry line
\* when the p of the header is not the nv of the segment; otherwise, for
\* nnz entry lines row col value, it builds the nv x nv matrix that holds
\* value at (row-1, col-1) for each line and zero everywhere else.
C18_DenseFromSparse ==
    parsed # None =>
        /\ parsed.out.p # parsed.nv =>
              (parsed.result.raised /\ parsed.result.read = 0)
        /\ (parsed.out.p = parsed.nv /\ WellFormed(parsed.nv, parsed.out)) =>
              /\ ~parsed.result.raised
              /\ parsed.result.read = parsed.out.nnz
              /\ parsed.result.mat = Dense(parsed.nv, parsed.out)

\* C18 witness: a 2 x 2 matrix was built from two entry lines, one of them
\* off the diagonal
C18_Witness ==
    /\ parsed # None
    /\ parsed.nv = 2
    /\ parsed.out.p = 2
    /\ parsed.out.nnz = 2
    /\ WellFormed(parsed.nv, parsed.out)
    /\ ~parsed.result.raised
    /\ parsed.result.mat[<< 0, 1 >>] # 0
    /\ parsed.result.mat[<< 1, 0 >>] = 0

\* C19: a QUIC or BigQUIC _train/timeit call that ends with an exception
\* after it changed the working directory leaves the process inside the
\* solver directory; from a solver directory no relative path of a solver
\* directory leads anywhere, so every later call of the adapter ends with
\* the exception of its os.chdir: it draws no run id, writes and removes no
\* file, starts no solver, and leaves the working directory where it is.
C19_FailureIsSticky ==
    /\ [](\A v, w \in {"QUIC", "BigQUIC"} : ~ChdirOk(SolverDir(v), SolverDir(w)))
    /\ []((ExternalEnded /\ ret.outcome = "raised")
            => (cwd = SolverDir(variant) /\ cwd # Root))
    /\ [][(IsExternal(variant) /\ cwd # Root)
            => /\ ret'.outcome = "raised"
               /\ ret'.id = 0
               /\ files' = files
               /\ cwd' = cwd]_vars

\* C19 witness: a call started inside the solver directory, where an
\* earlier call left the process and its files, has failed
C19_Witness ==
    /\ ExternalEnded
    /\ call.cwd0 = SolverDir(variant)
    /\ ret.outcome = "raised"
    /\ ret.id = 0
    /\ cwd = SolverDir(variant)
    /\ files # {}

\* the mapping of the constant entries of P and the placeholder key
WithDummy(P) ==
    [k \in {Dummy} \cup DOMAIN DictOf(ConstParamsOf(P)) |->
        IF k = Dummy THEN None ELSE DictOf(ConstParamsOf(P))[k]]

\* C20: when the ParamSpec has no list and no dict entry, every mapping
\* select passes to _train, and the params it returns and stores, is the
\* constants plus the key '__dummy__' with value None; when it has one,
\* no mapping passed to _train, returned or stored has the key '__dummy__'.
C20_DummyKeyOnlyWithoutAxes ==
    call.op = "select" =>
        /\ \A n \in DOMAIN trainLog :
              IF NoAxes(call.params0)
              THEN trainLog[n] = WithDummy(call.params0)
              ELSE Dummy \notin DOMAIN trainLog[n]
        /\ SelectReturned =>
              /\ self_params = ret.val[2]
              /\ IF NoAxes(call.params0)
                 THEN self_params = WithDummy(call.params0)
                 ELSE self_params = None \/ Dummy \notin DOMAIN self_params

\* C20 witness: a select over one constant has stored params with the
\* constant and the placeholder key
C20_Witness ==
    /\ SelectReturned
    /\ call.params0 = << ConstEntry("b", ConstVal) >>
    /\ DOMAIN self_params = {"b", Dummy}
    /\ self_params[Dummy] = None

===========================================================================
